---- MODULE Spec2Model ----
(***************************************************************************)
(* The blogging application of src/app.py as a state machine.              *)
(*                                                                         *)
(* State: the three tables of the relational store (user, role, blog),     *)
(* the login session of every browser, the wall clock, and the response    *)
(* to the last request.  One action per route of the application, one for  *)
(* the login and one for the logout view that Security(app, ...) installs, *)
(* and one for the passing of time (Spec).  SpecRace runs POST /register    *)
(* statement by statement for two requests handled at the same time.       *)
(*                                                                         *)
(* Strings are sequences of one-character strings, so that the validators  *)
(* (DataRequired, Email, EqualTo) are computed on the characters.          *)
(***************************************************************************)
EXTENDS Naturals, Sequences, FiniteSets

VARIABLES users,      \* rows of table user
          roles,      \* rows of table role
          blogs,      \* rows of table blog
          session,    \* browser -> fs_uniquifier of the logged-in user, or NoSession
          now,        \* datetime.utcnow()
          resp,       \* the response to the last request
          submitted,  \* history: user id -> the password typed into the form that created it
          logins,     \* history: the fs_uniquifier of every user the login view has let in
          handlers    \* concurrent POST /register requests: each one's position and locals

vars == <<users, roles, blogs, session, now, resp, submitted, logins, handlers>>

----------------------------------------------------------------------------
(* Bounds *)

MaxBlogs == 2

MaxTime == 1

----------------------------------------------------------------------------
(* Inputs *)

Clients == {"c1"}

Empty == <<>>

Alice == <<"a", "@", "x", ".", "y">>

Bob == <<"b", "@", "x", ".", "y">>

ValidEmails == { Alice, Bob }

EmailInputs == ValidEmails \cup { Empty, <<"b", "o", "b">>, <<"a", "@", "x">> }

ValidPasswords == { <<"p">>, <<"q">> }

PasswordInputs == ValidPasswords \cup { Empty }

Hello == <<"H", "e", "l", "l", "o">>

World == <<"W", "o", "r", "l", "d">>

TitleInputs == { Empty, <<" ">>, Hello }

ContentInputs == { Empty, <<" ">>, World }

\* The registration forms a browser posts: the well-formed ones (Alice with
\* either password, Bob with one), and ones with a field wrong.
RegistrationForms ==
    [csrf_token : {TRUE}, email : { Alice },
     password : { <<"p">> }, confirm_password : ValidPasswords]
    \cup [csrf_token : {TRUE}, email : { Alice },
          password : { <<"q">> }, confirm_password : { <<"q">> }]
    \cup [csrf_token : BOOLEAN, email : { Bob },
          password : { <<"q">> }, confirm_password : { <<"q">> }]
    \cup [csrf_token : {TRUE}, email : EmailInputs \ ValidEmails,
          password : { <<"p">> }, confirm_password : { <<"p">> }]
    \cup [csrf_token : {TRUE}, email : { Bob },
          password : { Empty }, confirm_password : { <<"p">> }]
    \cup [csrf_token : {TRUE}, email : { Bob },
          password : { <<"p">> }, confirm_password : { Empty }]

\* The new-post forms a browser posts: the well-formed one, and ones with a
\* field wrong.
BlogForms ==
    [csrf_token : BOOLEAN, title : { Hello }, content : { World }]
    \cup [csrf_token : {TRUE}, title : TitleInputs, content : { World }]
    \cup [csrf_token : {TRUE}, title : { Hello }, content : ContentInputs]
    \cup [csrf_token : {TRUE}, title : { <<" ">> }, content : { <<" ">> }]

\* The form of a GET request: no field is sent.
NoRegistrationForm ==
    [csrf_token |-> FALSE, email |-> Empty, password |-> Empty,
     confirm_password |-> Empty]

NoBlogForm == [csrf_token |-> FALSE, title |-> Empty, content |-> Empty]

\* The POST /register requests that are handled at the same time.
Requests == {"r1", "r2"}

\* A request handler that has not received its request.
NoHandler ==
    [pc |-> "idle", form |-> NoRegistrationForm, pending |-> {}, status |-> 0]

\* The credentials a browser posts to the login view.
Credentials ==
    [email : ValidEmails, password : ValidPasswords]
    \cup [email : { <<"b", "o", "b">> }, password : { <<"p">> }]

BlogIds == 0 .. (MaxBlogs + 1)

----------------------------------------------------------------------------
(* Validators *)

RECURSIVE lstrip(_)
lstrip(s) == IF s # Empty /\ Head(s) = " " THEN lstrip(Tail(s)) ELSE s

RECURSIVE rstrip(_)
rstrip(s) ==
    IF s # Empty /\ s[Len(s)] = " " THEN rstrip(SubSeq(s, 1, Len(s) - 1)) ELSE s

strip(s) == rstrip(lstrip(s))

\* DataRequired: the data is truthy and, for a string, not only whitespace.
\* A missing field and an empty field are both the empty string here.
DataRequired(data) == data # Empty /\ strip(data) # Empty

\* Email: one "@", a local part before it, and after it a domain of
\* dot-separated non-empty labels, at least two of them.
Email(data) ==
    LET ats == {i \in 1 .. Len(data) : data[i] = "@"} IN
    /\ Cardinality(ats) = 1
    /\ LET at == CHOOSE i \in ats : TRUE
           domain == SubSeq(data, at + 1, Len(data))
       IN  /\ at > 1
           /\ Len(domain) >= 3
           /\ domain[1] # "." /\ domain[Len(domain)] # "."
           /\ \E j \in 2 .. (Len(domain) - 1) : domain[j] = "."
           /\ \A j \in 1 .. (Len(domain) - 1) :
                  ~(domain[j] = "." /\ domain[j + 1] = ".")

EqualTo(data, other) == data = other

\* The fields of a submitted RegistrationForm that fail validation.  A field's
\* validators run in order and stop at the first one that fails.
RegistrationForm_NoEqualTo(form) ==
    (IF form.csrf_token THEN {} ELSE {"csrf_token"})
    \cup (IF DataRequired(form.email) /\ Email(form.email) THEN {} ELSE {"email"})
    \cup (IF DataRequired(form.password) THEN {} ELSE {"password"})
    \cup (IF DataRequired(form.confirm_password) THEN {} ELSE {"confirm_password"})

RegistrationForm(form) ==
    (IF form.csrf_token THEN {} ELSE {"csrf_token"})
    \cup (IF DataRequired(form.email) /\ Email(form.email) THEN {} ELSE {"email"})
    \cup (IF DataRequired(form.password) THEN {} ELSE {"password"})
    \cup (IF /\ DataRequired(form.confirm_password)
             /\ EqualTo(form.confirm_password, form.password)
          THEN {} ELSE {"confirm_password"})

BlogForm_TitleOptional(form) ==
    (IF form.csrf_token THEN {} ELSE {"csrf_token"})
    \cup (IF DataRequired(form.content) THEN {} ELSE {"content"})

\* The fields of a submitted BlogForm that fail validation.
BlogForm(form) ==
    (IF form.csrf_token THEN {} ELSE {"csrf_token"})
    \cup (IF DataRequired(form.title) THEN {} ELSE {"title"})
    \cup (IF DataRequired(form.content) THEN {} ELSE {"content"})

\* form.validate_on_submit(): the request is a submission and no field fails.
validate_on_submit(method, errors) == method = "POST" /\ errors = {}

----------------------------------------------------------------------------
(* The store *)

NULL == 0

\* An integer primary key: one more than the largest key of the table.
NextId(rows) ==
    IF rows = {} THEN 1
    ELSE (CHOOSE i \in {r.id : r \in rows} : \A r \in rows : r.id <= i) + 1

User(id, email, password, fs_uniquifier) ==
    [id |-> id, email |-> email, password |-> password, active |-> TRUE,
     fs_uniquifier |-> fs_uniquifier, roles |-> {}]

Blog_NullAuthor(id, title, content, author) ==
    [id |-> id, title |-> title, content |-> content, date_posted |-> now,
     author_id |-> NULL]

Blog(id, title, content, author) ==
    [id |-> id, title |-> title, content |-> content, date_posted |-> now,
     author_id |-> author.id]

\* The bcrypt hash of a password under the configured salt: never a string a
\* form can carry.
hash_password(password) == <<"$", "2", "b", "$">> \o password

\* A stored password verifies a typed one when it is its hash or, under the
\* plaintext scheme, the typed password itself.
verify_password(password, stored) ==
    stored = hash_password(password) \/ stored = password

create_user_SameUniquifier(email, password, fs_uniquifier) ==
    User(NextId(users), email, password, <<"u">>)

\* user_datastore.create_user(**kwargs): a User row of the keyword arguments
\* as they are given.
create_user(email, password, fs_uniquifier) ==
    User(NextId(users), email, password, fs_uniquifier)

IntegrityError_Never(user) == FALSE

\* The unique constraints of table user, checked at commit.
IntegrityError(user) ==
    \E u \in users :
        u.email = user.email \/ u.fs_uniquifier = user.fs_uniquifier

db_session_add_Upsert(blog) ==
    {b \in blogs : b.author_id # blog.author_id} \cup {blog}

\* db.session.add(blog); db.session.commit()
db_session_add(blog) == blogs \cup {blog}

----------------------------------------------------------------------------
(* Sessions *)

NoSession == Empty

current_user_First(c) ==
    {u \in users : session[c] # NoSession /\ \A v \in users : u.id <= v.id}

\* The user the session of browser c names, as a set: empty for an anonymous
\* request.
current_user(c) ==
    {u \in users : session[c] # NoSession /\ u.fs_uniquifier = session[c]}

is_authenticated(c) == \E u \in current_user(c) : u.active

----------------------------------------------------------------------------
(* Responses *)

Response(route, method, status, body, errors, blog) ==
    [route |-> route, method |-> method, status |-> status, body |-> body,
     errors |-> errors, blog |-> blog]

render_template(route, method, template, errors, blog) ==
    Response(route, method, 200, template, errors, blog)

redirect(route, method, location) ==
    Response(route, method, 302, location, {}, {})

abort(route, method, status) == Response(route, method, status, "error", {}, {})

\* @login_required on an anonymous request: a redirect to the login view and
\* nothing else.
unauthorized(route, method) ==
    /\ resp' = redirect(route, method, "/login")
    /\ UNCHANGED <<users, roles, blogs, session, now, submitted, logins, handlers>>

----------------------------------------------------------------------------
(* Initial state: the tables db.create_all() leaves, nobody logged in *)

Init ==
    /\ users = {}
    /\ roles = {}
    /\ blogs = {}
    /\ session = [c \in Clients |-> NoSession]
    /\ now = 0
    /\ resp = Response("none", "GET", 0, "none", {}, {})
    /\ submitted = {}
    /\ logins = {}
    /\ handlers = [r \in Requests |-> NoHandler]

----------------------------------------------------------------------------
(* Routes *)

index(c) ==
    /\ resp' = render_template("/", "GET", "index.html", {}, {})
    /\ UNCHANGED <<users, roles, blogs, session, now, submitted, logins, handlers>>

dashboard(c) ==
    IF ~is_authenticated(c)
    THEN unauthorized("/dashboard", "GET")
    ELSE /\ resp' = render_template("/dashboard", "GET", "blog_list.html", {}, {})
         /\ UNCHANGED <<users, roles, blogs, session, now, submitted, logins, handlers>>

register_LoginUser(c, method, form) ==
    LET errors == RegistrationForm(form) IN
    /\ IF validate_on_submit(method, errors)
       THEN LET user == create_user(form.email, form.password, form.email) IN
            IF IntegrityError(user)
            THEN /\ resp' = abort("/register", method, 500)
                 /\ UNCHANGED <<users, submitted, session>>
            ELSE /\ users' = users \cup {user}
                 /\ submitted' = submitted \cup {<<user.id, form.password>>}
                 /\ session' = [session EXCEPT ![c] = user.fs_uniquifier]
                 /\ resp' = redirect("/register", method, "/dashboard")
       ELSE /\ resp' = render_template("/register", method, "register.html",
                                       IF method = "POST" THEN errors ELSE {}, {})
            /\ UNCHANGED <<users, submitted, session>>
    /\ UNCHANGED <<roles, blogs, now, logins, handlers>>

register(c, method, form) ==
    LET errors == RegistrationForm(form) IN
    /\ IF validate_on_submit(method, errors)
       THEN LET user == create_user(form.email, form.password, form.email) IN
            IF IntegrityError(user)
            THEN \* the commit raises, the transaction is rolled back
                 /\ resp' = abort("/register", method, 500)
                 /\ UNCHANGED <<users, submitted>>
            ELSE /\ users' = users \cup {user}
                 /\ submitted' = submitted \cup {<<user.id, form.password>>}
                 /\ resp' = redirect("/register", method, "/dashboard")
       ELSE /\ resp' = render_template("/register", method, "register.html",
                                       IF method = "POST" THEN errors ELSE {}, {})
            /\ UNCHANGED <<users, submitted>>
    /\ UNCHANGED <<roles, blogs, session, now, logins, handlers>>

new_blog_NoLoginRequired(c, method, form) ==
    LET errors == BlogForm(form)
        author == IF current_user(c) = {} THEN [id |-> NULL]
                  ELSE CHOOSE u \in current_user(c) : TRUE
    IN
    IF validate_on_submit(method, errors)
    THEN /\ Cardinality(blogs) < MaxBlogs
         /\ blogs' = db_session_add(Blog(NextId(blogs), form.title, form.content, author))
         /\ resp' = redirect("/blog/new", method, "/dashboard")
         /\ UNCHANGED <<users, roles, session, now, submitted, logins, handlers>>
    ELSE /\ resp' = render_template("/blog/new", method, "create_blog.html",
                                    IF method = "POST" THEN errors ELSE {}, {})
         /\ UNCHANGED <<users, roles, blogs, session, now, submitted, logins, handlers>>

new_blog(c, method, form) ==
    LET errors == BlogForm(form) IN
    IF ~is_authenticated(c)
    THEN unauthorized("/blog/new", method)
    ELSE IF validate_on_submit(method, errors)
         THEN LET author == CHOOSE u \in current_user(c) : TRUE IN
              /\ Cardinality(blogs) < MaxBlogs
              /\ blogs' = db_session_add(
                              Blog(NextId(blogs), form.title, form.content, author))
              /\ resp' = redirect("/blog/new", method, "/dashboard")
              /\ UNCHANGED <<users, roles, session, now, submitted, logins, handlers>>
         ELSE /\ resp' = render_template("/blog/new", method, "create_blog.html",
                                         IF method = "POST" THEN errors ELSE {}, {})
              /\ UNCHANGED <<users, roles, blogs, session, now, submitted, logins, handlers>>

blog_NoAbort(c, blog_id) ==
    LET found == {b \in blogs : b.id = blog_id} IN
    IF ~is_authenticated(c)
    THEN unauthorized("/blog/<id>", "GET")
    ELSE /\ resp' = render_template("/blog/<id>", "GET", "blog_detail.html", {}, found)
         /\ UNCHANGED <<users, roles, blogs, session, now, submitted, logins, handlers>>

blog(c, blog_id) ==
    LET found == {b \in blogs : b.id = blog_id} IN
    IF ~is_authenticated(c)
    THEN unauthorized("/blog/<id>", "GET")
    ELSE /\ resp' = IF found = {} THEN abort("/blog/<id>", "GET", 404)
                    ELSE render_template("/blog/<id>", "GET", "blog_detail.html",
                                         {}, found)
         /\ UNCHANGED <<users, roles, blogs, session, now, submitted, logins, handlers>>

\* The login view of Security(app, user_datastore): a session for the active
\* user of that email whose stored password verifies the typed one.
login(c, email, password) ==
    LET found == {u \in users :
                     u.email = email /\ u.active /\ verify_password(password, u.password)}
    IN
    /\ IF found = {}
       THEN /\ resp' = render_template("/login", "POST", "login_user.html",
                                       {"password"}, {})
            /\ UNCHANGED <<session, logins>>
       ELSE LET user == CHOOSE u \in found : TRUE IN
            /\ session' = [session EXCEPT ![c] = user.fs_uniquifier]
            /\ logins' = logins \cup {user.fs_uniquifier}
            /\ resp' = redirect("/login", "POST", "/")
    /\ UNCHANGED <<users, roles, blogs, now, submitted, handlers>>

\* The logout view of Security(app, user_datastore).
logout(c) ==
    /\ session' = [session EXCEPT ![c] = NoSession]
    /\ resp' = redirect("/logout", "GET", "/")
    /\ UNCHANGED <<users, roles, blogs, now, submitted, logins, handlers>>

\* Time passes between requests.
Tick ==
    /\ now < MaxTime
    /\ now' = now + 1
    /\ UNCHANGED <<users, roles, blogs, session, resp, submitted, logins, handlers>>

Next ==
    \/ \E c \in Clients : index(c)
    \/ \E c \in Clients : dashboard(c)
    \/ \E c \in Clients : register(c, "GET", NoRegistrationForm)
    \/ \E c \in Clients, form \in RegistrationForms : register(c, "POST", form)
    \/ \E c \in Clients : new_blog(c, "GET", NoBlogForm)
    \/ \E c \in Clients, form \in BlogForms : new_blog(c, "POST", form)
    \/ \E c \in Clients, blog_id \in BlogIds : blog(c, blog_id)
    \/ \E c \in Clients, cred \in Credentials : login(c, cred.email, cred.password)
    \/ \E c \in Clients : logout(c)
    \/ Tick

Spec == Init /\ [][Next]_vars

----------------------------------------------------------------------------
(* POST /register, statement by statement, for requests handled at the      *)
(* same time.  Each request has its own form and its own database session;  *)
(* the store is what they share.                                            *)

\* form = RegistrationForm(): the request arrives with its form.
receive(r, form) ==
    /\ handlers[r].pc = "idle"
    /\ handlers' = [handlers EXCEPT ![r] = [NoHandler EXCEPT !.pc = "validate",
                                                            !.form = form]]
    /\ UNCHANGED <<users, roles, blogs, session, now, resp, submitted, logins>>

\* if form.validate_on_submit(): ... else the form is rendered again.
validate(r) ==
    LET h == handlers[r] IN
    /\ h.pc = "validate"
    /\ handlers' = [handlers EXCEPT ![r] =
                       IF validate_on_submit("POST", RegistrationForm(h.form))
                       THEN [h EXCEPT !.pc = "create_user"]
                       ELSE [h EXCEPT !.pc = "done", !.status = 200]]
    /\ UNCHANGED <<users, roles, blogs, session, now, resp, submitted, logins>>

\* user_datastore.create_user(...): a new User in the request's database
\* session, with no row and no id until the commit.
add_user(r) ==
    LET h == handlers[r]
        user == create_user(h.form.email, h.form.password, h.form.email)
    IN
    /\ h.pc = "create_user"
    /\ handlers' = [handlers EXCEPT ![r] =
                       [h EXCEPT !.pc = "commit",
                                 !.pending = {[user EXCEPT !.id = NULL]}]]
    /\ UNCHANGED <<users, roles, blogs, session, now, resp, submitted, logins>>

\* db.session.commit(): the INSERT, which the unique constraints fail or let
\* through in one step of the database, then the redirect.
commit(r) ==
    LET h == handlers[r]
        user == CHOOSE u \in h.pending : TRUE
    IN
    /\ h.pc = "commit"
    /\ IF IntegrityError(user)
       THEN /\ handlers' = [handlers EXCEPT ![r] =
                               [h EXCEPT !.pc = "done", !.pending = {},
                                         !.status = 500]]
            /\ UNCHANGED <<users, submitted>>
       ELSE /\ users' = users \cup {[user EXCEPT !.id = NextId(users)]}
            /\ submitted' = submitted \cup {<<NextId(users), h.form.password>>}
            /\ handlers' = [handlers EXCEPT ![r] =
                               [h EXCEPT !.pc = "done", !.pending = {},
                                         !.status = 302]]
    /\ UNCHANGED <<roles, blogs, session, now, resp, logins>>

NextRace ==
    \/ \E r \in Requests, form \in RegistrationForms : receive(r, form)
    \/ \E r \in Requests : validate(r)
    \/ \E r \in Requests : add_user(r)
    \/ \E r \in Requests : commit(r)

SpecRace == Init /\ [][NextRace]_vars

----------------------------------------------------------------------------
(* Registration *)
(* In the formulas on steps, the conjuncts that read one state come before  *)
(* the action they qualify, and the route that a step of the action writes  *)
(* to resp is tested first.                                                 *)

\* The form passes RegistrationForm's validators, said field by field.
WellFormedRegistration(form) ==
    /\ form.csrf_token
    /\ \E i \in 1 .. Len(form.email) : form.email[i] # " "
    /\ Email(form.email)
    /\ \E i \in 1 .. Len(form.password) : form.password[i] # " "
    /\ form.confirm_password = form.password

\* C1: a POST /register with a valid form (token, email present and
\* email-shaped, password present, confirmation equal to the password) whose
\* email no stored account has adds exactly one account, with that email and
\* with an fs_uniquifier and an id no other account has, and changes no other
\* account, post or role.
C1_RegisterCreatesOneAccount ==
    [][\A c \in Clients, form \in RegistrationForms :
          ( /\ resp'.route = "/register"
            /\ WellFormedRegistration(form)
            /\ \A u \in users : u.email # form.email
            /\ register(c, "POST", form) )
          => /\ \E u \in users' \ users :
                  /\ users' = users \cup {u}
                  /\ u.email = form.email
                  /\ \A v \in users :
                         v.fs_uniquifier # u.fs_uniquifier /\ v.id # u.id
             /\ Cardinality(users') = Cardinality(users) + 1
             /\ resp'.status = 302 /\ resp'.body = "/dashboard"
             /\ UNCHANGED <<roles, blogs>>]_vars

\* A second account has just been registered beside a first one.
C1_Witness ==
    /\ resp.route = "/register" /\ resp.status = 302
    /\ Cardinality(users) = 2

MalformedRegistration(form) ==
    \/ form.email = Empty
    \/ form.password = Empty
    \/ form.confirm_password = Empty
    \/ ~Email(form.email)
    \/ form.confirm_password # form.password

\* C3: a POST /register whose confirmation differs from the password, or with
\* a missing email, password or confirmation, or with an email that is not
\* email-shaped, creates no account, leaves the store unchanged and renders
\* the registration form again, with errors on its fields.
C3_InvalidRegistrationRejected ==
    [][\A c \in Clients, form \in RegistrationForms :
          ( /\ resp'.route = "/register"
            /\ MalformedRegistration(form)
            /\ register(c, "POST", form) )
          => /\ UNCHANGED <<users, roles, blogs>>
             /\ resp'.status = 200 /\ resp'.body = "register.html"
             /\ resp'.errors # {}]_vars

\* The form came back with an error on the confirmation alone.
C3_Witness ==
    /\ resp.route = "/register" /\ resp.method = "POST" /\ resp.status = 200
    /\ resp.errors = {"confirm_password"}

----------------------------------------------------------------------------
(* Posts *)

\* The accounts the session of browser c belongs to.
SessionAccounts(c) ==
    {u \in users : session[c] # NoSession /\ u.fs_uniquifier = session[c]}

\* What C4 says of a POST /blog/new by a logged-in browser with the form:
\* one more post, of that title and body, owned by the session's account, a
\* redirect to the listing.
PostCreated(c, form) ==
    /\ \E b \in blogs' \ blogs :
          /\ blogs' = blogs \cup {b}
          /\ b.title = form.title /\ b.content = form.content
          /\ \A u \in SessionAccounts(c) : b.author_id = u.id
          /\ \A o \in blogs : o.id # b.id
    /\ Cardinality(blogs') = Cardinality(blogs) + 1
    /\ resp'.status = 302 /\ resp'.body = "/dashboard"
    /\ UNCHANGED <<users, roles>>

\* What C4 says of a logged-in GET /blog/<id> with the id of a stored post.
PostReturned(c, blog_id) ==
    /\ resp'.status = 200 /\ resp'.body = "blog_detail.html"
    /\ resp'.blog = {b \in blogs : b.id = blog_id}
    /\ Cardinality(resp'.blog) = 1

\* C4 as stated: every POST /blog/new of a logged-in browser with a non-empty
\* title and a non-empty body adds exactly one post, owned by the session's
\* account, and redirects; a logged-in GET /blog/<id> of a stored post
\* returns it.
C4_AsStated ==
    [][/\ \A c \in Clients, form \in BlogForms :
             ( /\ resp'.route = "/blog/new"
               /\ SessionAccounts(c) # {}
               /\ form.title # Empty /\ form.content # Empty
               /\ new_blog(c, "POST", form) )
             => PostCreated(c, form)
       /\ \A c \in Clients, blog_id \in BlogIds :
             ( /\ resp'.route = "/blog/<id>"
               /\ SessionAccounts(c) # {}
               /\ \E b \in blogs : b.id = blog_id
               /\ blog(c, blog_id) )
             => PostReturned(c, blog_id)]_vars

\* C4, amended: the same of every such POST whose title and body each hold a
\* character that is not whitespace and whose CSRF token is valid.
C4_PostCreatedAndRetrievable ==
    [][/\ \A c \in Clients, form \in BlogForms :
             ( /\ resp'.route = "/blog/new"
               /\ SessionAccounts(c) # {}
               /\ form.csrf_token
               /\ \E i \in 1 .. Len(form.title) : form.title[i] # " "
               /\ \E i \in 1 .. Len(form.content) : form.content[i] # " "
               /\ new_blog(c, "POST", form) )
             => PostCreated(c, form)
       /\ \A c \in Clients, blog_id \in BlogIds :
             ( /\ resp'.route = "/blog/<id>"
               /\ SessionAccounts(c) # {}
               /\ \E b \in blogs : b.id = blog_id
               /\ blog(c, blog_id) )
             => PostReturned(c, blog_id)]_vars

\* The detail route has just returned a post "Hello"/"World" of the second
\* of two accounts, to the browser of that account.
C4_Witness ==
    /\ resp.route = "/blog/<id>" /\ resp.status = 200
    /\ Cardinality(users) = 2
    /\ \E b \in resp.blog :
          /\ b \in blogs
          /\ b.title = Hello /\ b.content = World
          /\ b.author_id = 2
          /\ \A u \in SessionAccounts("c1") : u.id = 2

\* C5: a request to /dashboard, /blog/new (GET or POST) or /blog/<id> from a
\* browser with no session is redirected to the login view and leaves the
\* store and the sessions unchanged.
C5_ProtectedRoutesRedirect ==
    [][\A c \in Clients :
          ( /\ session[c] = NoSession
            /\ \/ dashboard(c)
               \/ new_blog(c, "GET", NoBlogForm)
               \/ \E form \in BlogForms : new_blog(c, "POST", form)
               \/ \E blog_id \in BlogIds : blog(c, blog_id) )
          => /\ resp'.status = 302 /\ resp'.body = "/login"
             /\ UNCHANGED <<users, roles, blogs, session>>]_vars

\* A POST /blog/new without a session has just been redirected to the login
\* view, an account being registered.
C5_Witness ==
    /\ resp.route = "/blog/new" /\ resp.method = "POST"
    /\ resp.status = 302 /\ resp.body = "/login"
    /\ users # {} /\ blogs = {}

\* C6 as stated: any GET /blog/<id> with an id no stored post has is answered
\* 404 and leaves the store unchanged; with the id of a stored post it
\* returns that post.
C6_AsStated ==
    [][\A c \in Clients, blog_id \in BlogIds :
          (resp'.route = "/blog/<id>" /\ blog(c, blog_id))
          => /\ UNCHANGED <<users, roles, blogs>>
             /\ IF \E b \in blogs : b.id = blog_id
                THEN PostReturned(c, blog_id)
                ELSE resp'.status = 404]_vars

\* C6, amended: the same of any GET /blog/<id> of a logged-in browser.
C6_DetailOr404 ==
    [][\A c \in Clients, blog_id \in BlogIds :
          ( /\ resp'.route = "/blog/<id>"
            /\ SessionAccounts(c) # {}
            /\ blog(c, blog_id) )
          => /\ UNCHANGED <<users, roles, blogs>>
             /\ IF \E b \in blogs : b.id = blog_id
                THEN PostReturned(c, blog_id)
                ELSE resp'.status = 404]_vars

\* A logged-in browser has just been answered 404, a post being stored.
C6_Witness ==
    /\ resp.route = "/blog/<id>" /\ resp.status = 404
    /\ SessionAccounts("c1") # {}
    /\ blogs # {}

----------------------------------------------------------------------------
(* Invariants of the store *)

\* C7: no account's stored password is the password typed into the
\* registration form that created it.
C7_PasswordNotPlaintext ==
    \A u \in users : \A s \in submitted : s[1] = u.id => u.password # s[2]

\* C8: no two distinct accounts share an email, and no two share an
\* fs_uniquifier.
C8_UniqueEmailAndUniquifier ==
    \A u \in users : \A v \in users :
        u # v => u.email # v.email /\ u.fs_uniquifier # v.fs_uniquifier

\* Two accounts are registered and a post is stored.
C8_Witness == Cardinality(users) = 2 /\ blogs # {}

\* C9: every stored post has an owner (author_id is not null), and exactly one
\* stored account is that owner.
C9_PostOwnerExists ==
    \A b \in blogs :
        /\ b.author_id # NULL
        /\ Cardinality({u \in users : u.id = b.author_id}) = 1

\* Two posts of two different accounts are stored.
C9_Witness ==
    \E b1 \in blogs : \E b2 \in blogs : b1.author_id # b2.author_id

\* C10: in every step, every stored post stays in the store as it is (same
\* id, title, body, timestamp and owner), and a step that changes the set of
\* posts is a POST /blog/new answered with the redirect, adding one post.
C10_PostsAppendOnly ==
    [][/\ \A b \in blogs : b \in blogs'
       /\ blogs' # blogs
          => /\ resp'.route = "/blog/new" /\ resp'.method = "POST"
             /\ resp'.status = 302
             /\ \E c \in Clients, form \in BlogForms : new_blog(c, "POST", form)
             /\ Cardinality(blogs' \ blogs) = 1]_vars

\* Two posts made at different times are stored, and the last request was a
\* registration.
C10_Witness ==
    /\ resp.route = "/register"
    /\ \E b1 \in blogs : \E b2 \in blogs :
          b1.id # b2.id /\ b1.date_posted # b2.date_posted

----------------------------------------------------------------------------
(* Rejected posts, sessions, and registrations handled at the same time *)

\* C11: a POST /blog/new of a logged-in browser with an empty or missing title
\* or an empty or missing body inserts no post, leaves the store unchanged and
\* renders the new-post form again, with errors; and every stored post has a
\* non-empty title and a non-empty body.
C11_EmptyPostRejected ==
    [][/\ \A c \in Clients, form \in BlogForms :
             ( /\ resp'.route = "/blog/new"
               /\ SessionAccounts(c) # {}
               /\ (form.title = Empty \/ form.content = Empty)
               /\ new_blog(c, "POST", form) )
             => /\ UNCHANGED <<users, roles, blogs>>
                /\ resp'.status = 200 /\ resp'.body = "create_blog.html"
                /\ resp'.errors # {}
       /\ \A b \in blogs' : b.title # Empty /\ b.content # Empty]_vars

\* The new-post form has just come back to a logged-in browser with an error
\* on the body alone, a post being stored.
C11_Witness ==
    /\ resp.route = "/blog/new" /\ resp.method = "POST" /\ resp.status = 200
    /\ resp.errors = {"content"}
    /\ SessionAccounts("c1") # {}
    /\ blogs # {}

\* C12: a step changes the session of a browser only at the login view (or
\* empties it at the logout view), and a session names a user the login view
\* has let in; a POST /register leaves the sessions as they are, so that the
\* GET /dashboard that follows a registration from a browser without a
\* session is redirected to the login view; and the owner of every stored
\* post is a user the login view has let in before.
C12_SessionOnlyAtLogin ==
    [][/\ \A c \in Clients :
             session'[c] # session[c]
             => \/ resp'.route = "/login" /\ resp'.status = 302
                \/ resp'.route = "/logout" /\ session'[c] = NoSession
       /\ \A c \in Clients : session'[c] # NoSession => session'[c] \in logins'
       /\ \A c \in Clients, form \in RegistrationForms :
             (resp'.route = "/register" /\ register(c, "POST", form))
             => UNCHANGED session
       /\ \A c \in Clients :
             ( /\ resp.route = "/register" /\ resp.status = 302
               /\ session[c] = NoSession
               /\ dashboard(c) )
             => resp'.status = 302 /\ resp'.body = "/login"
       /\ \A b \in blogs' :
             \E u \in users' :
                 u.id = b.author_id /\ u.fs_uniquifier \in logins'
       /\ logins \subseteq logins']_vars

\* The dashboard has just redirected to the login view a browser in a store
\* with an account and nobody ever logged in.
C12_Witness ==
    /\ resp.route = "/dashboard" /\ resp.status = 302 /\ resp.body = "/login"
    /\ users # {}
    /\ logins = {}

\* C13: with two POST /register requests handled at the same time, no two
\* stored accounts share an email; there are as many accounts as requests
\* answered with the success redirect; and of two finished requests with the
\* same email and valid forms, one was answered with the redirect and the
\* other with a failure (a 500).
C13_OneAccountPerEmail ==
    /\ \A u \in users : \A v \in users : u.email = v.email => u = v
    /\ Cardinality(users) =
           Cardinality({r \in Requests : handlers[r].status = 302})
    /\ \A r1 \in Requests : \A r2 \in Requests \ {r1} :
           ( /\ handlers[r1].pc = "done" /\ handlers[r2].pc = "done"
             /\ handlers[r1].form.email = handlers[r2].form.email
             /\ WellFormedRegistration(handlers[r1].form)
             /\ WellFormedRegistration(handlers[r2].form) )
           => {handlers[r1].status, handlers[r2].status} = {302, 500}

\* Two requests with the same email and valid forms have finished, "r2" with
\* the redirect and "r1" with the failure, and one account is stored.
C13_Witness ==
    /\ handlers["r1"].pc = "done" /\ handlers["r2"].pc = "done"
    /\ handlers["r1"].form.email = handlers["r2"].form.email
    /\ handlers["r1"].status = 500 /\ handlers["r2"].status = 302
    /\ Cardinality(users) = 1

====
